---- MODULE Spec2Model ----
(***************************************************************************)
(* Model of src/model/umx.py: the UMXSeparator pipeline (construction,     *)
(* load_model, forward with its target loop, source-count check and chunk  *)
(* loop, to_dict, separate) and the bandwidth_to_max_bin helper.           *)
(*                                                                         *)
(* Tensors are modelled by their shape and by the identity of each cell    *)
(* along the axes the code indexes (sample, source slot); the audio        *)
(* values, the channel, bin and time axes are not represented.             *)
(* Frequencies are exact rationals (numerator, denominator): the rounding  *)
(* of binary floating point is not represented.                            *)
(***************************************************************************)
EXTENDS Integers, Sequences, FiniteSets, Bags, TLC

\* ---------------------------------------------------------------- bounds
MaxRate == 6
MaxNfft == 8
MaxBandwidth == 4
MaxSamples == 2
MaxFrames == 4
MaxWin == 3
MaxIter == 1
MaxAggLen == 2

\* default of the wiener_win_len argument of UMXSeparator.__init__
DefaultWienerWinLen == 300

TargetNames == {"piano", "orch"}
AggNames == {"piano", "residual", "drums"}
AggLabels == {"acc", "piano"}

VARIABLES
  pc,               \* position of the caller / of the running call
  err,              \* kind of the exception raised, "none" if none
  _sample_rate, _window_size, bandwidth,   \* stft configuration
  _max_freq_bins,   \* self._max_freq_bins, <<>> before construction
  _residual, _wiener_win_len, _num_iter, _softmask,
  winGiven,         \* whether wiener_win_len was passed to __init__
  _target_models,   \* keys of self._target_models in insertion order
  nb_samples, nb_frames, nb_sources,
  j,                \* index of the target loop
  sample, pos, wiener_win_len,
  chunks,           \* chunks <<first, last+1>> of the current sample
  cnt,              \* writes of targets_stft[sample, frame]
  outside,          \* a chunk named a frame outside 0..nb_frames-1
  layout,           \* source held by each slot of targets_stft
  stftCalls, estimatorCalls, wienerCalls, istftCalls,
  estimates,        \* <<tensor>> returned by forward, <<>> before
  argEst, argAgg,   \* arguments of the to_dict call
  result            \* outcome of to_dict / separate

cfgvars == <<_sample_rate, _window_size, bandwidth, _max_freq_bins,
             _residual, _wiener_win_len, _num_iter, _softmask, winGiven>>
loopvars == <<sample, pos, wiener_win_len, chunks, cnt, outside, layout>>
callvars == <<nb_samples, nb_frames, nb_sources, j>>
countvars == <<stftCalls, estimatorCalls, wienerCalls, istftCalls>>
dictvars == <<argEst, argAgg, result>>
vars == <<pc, err, cfgvars, _target_models, callvars, loopvars, countvars,
          estimates, dictvars>>

Min(a, b) == IF a <= b THEN a ELSE b

\* ------------------------------------------------- bandwidth_to_max_bin
\* A frequency is the fraction num / den, den > 0.
Frac(n, d) == [num |-> n, den |-> d]

\* np.linspace(0, stop, num, endpoint=True), stop = stopNum / stopDen:
\* step = stop / (num - 1), point i = i * step, the last point set to stop.
linspace(stopNum, stopDen, num) ==
  [i \in 1..num |->
     IF num = 1 THEN Frac(0, 1)
     ELSE IF i = num THEN Frac(stopNum, stopDen)
     ELSE Frac((i - 1) * stopNum, stopDen * (num - 1))]

\* np.where(freqs <= bandwidth)[0]: the 0-based indices that satisfy it
where_lt(freqs, bw) ==
  {i - 1 : i \in {i \in DOMAIN freqs : freqs[i].num < bw * freqs[i].den}}

where_le(freqs, bw) ==
  {i - 1 : i \in {i \in DOMAIN freqs : freqs[i].num <= bw * freqs[i].den}}

\* np.max of a non-empty index set
np_max(S) == CHOOSE m \in S : \A x \in S : x <= m

\* a bandwidth_to_max_bin that returns the index, not the bin count
bandwidth_to_max_bin_index(rate, n_fft, bw) ==
  LET freqs == linspace(rate, 2, n_fft \div 2 + 1)
      idx == where_le(freqs, bw)
  IN IF idx = {} THEN <<>> ELSE <<np_max(idx)>>

\* bandwidth_to_max_bin: <<v>> for the value v, <<>> when np.max raises
\* ValueError on an empty array
bandwidth_to_max_bin(rate, n_fft, bw) ==
  LET freqs == linspace(rate, 2, n_fft \div 2 + 1)
      idx == where_le(freqs, bw)
  IN IF idx = {} THEN <<>> ELSE <<np_max(idx) + 1>>

\* ------------------------------------------------------------- tensors
\* A tensor: its shape over the (sample, source) axes that forward's output
\* starts with, and its cells, a function from index tuples to the
\* <<sample, slot>> cell of forward's output found there.  The channel and
\* time axes that follow are not represented.
Indices(shape) ==
  IF Len(shape) = 0 THEN {<<>>}
  ELSE IF Len(shape) = 1 THEN {<<a>> : a \in 0..(shape[1] - 1)}
  ELSE {<<a, b>> : a \in 0..(shape[1] - 1), b \in 0..(shape[2] - 1)}

\* the estimates forward returns: shape (nb_samples, nb_sources, ...)
ForwardOutput(nbS, nbSrc) ==
  [shape |-> <<nbS, nbSrc>>,
   at |-> [ix \in Indices(<<nbS, nbSrc>>) |-> ix]]

\* Tensor.squeeze(0): drops the first axis when its size is 1
squeeze0(t) ==
  IF Len(t.shape) >= 1 /\ t.shape[1] = 1
  THEN [shape |-> Tail(t.shape),
        at |-> [ix \in Indices(Tail(t.shape)) |-> t.at[<<0>> \o ix]]]
  ELSE t

\* t[k, :, ...]: index k of the first axis, negative k counted from the end
Wrap(t, k) == IF k < 0 THEN t.shape[1] + k ELSE k

CanIndex0(t, k) ==
  Len(t.shape) >= 1 /\ Wrap(t, k) >= 0 /\ Wrap(t, k) < t.shape[1]

Index0(t, k) ==
  [shape |-> Tail(t.shape),
   at |-> [ix \in Indices(Tail(t.shape)) |-> t.at[<<Wrap(t, k)>> \o ix]]]

Cells(t) == {t.at[ix] : ix \in DOMAIN t.at}

\* ------------------------------------------------------------- to_dict
Range(q) == {q[i] : i \in DOMAIN q}

IndexOf(q, x) == CHOOSE i \in DOMAIN q : q[i] = x

NoAgg == [given |-> FALSE, d |-> <<>>]

\* the loops of lines 321-326 index estimates[k] for every loaded target
\* and estimates[-1] for the residual; an index out of range raises
EntriesOk(est) ==
  /\ \A k \in DOMAIN _target_models : CanIndex0(est, k - 1)
  /\ _residual => CanIndex0(est, 0 - 1)

\* estimates_dict after lines 320-326
estimates_dict(est) ==
  [n \in Range(_target_models) \cup (IF _residual THEN {"residual"} ELSE {}) |->
     IF _residual /\ n = "residual"
     THEN Index0(est, 0 - 1)
     ELSE Index0(est, IndexOf(_target_models, n) - 1)]

\* new_estimates[key] of lines 331-333: torch.tensor(0.0) plus the entries of
\* the listed names, kept as the bag of its terms
RECURSIVE SumOf(_, _)
SumOf(names, d) ==
  IF names = <<>> THEN EmptyBag
  ELSE SetToBag({d[Head(names)]}) (+) SumOf(Tail(names), d)

RECURSIVE SumOfKnown(_, _)
SumOfKnown(names, d) ==
  IF names = <<>> THEN EmptyBag
  ELSE IF Head(names) \in DOMAIN d
       THEN SetToBag({d[Head(names)]}) (+) SumOfKnown(Tail(names), d)
       ELSE SumOfKnown(Tail(names), d)

\* a to_dict that skips the names it does not know instead of raising
to_dict_skipping(est, agg) ==
  IF ~EntriesOk(est)
  THEN [ok |-> FALSE, err |-> "IndexError", dict |-> <<>>]
  ELSE IF ~agg.given
  THEN [ok |-> TRUE, err |-> "none", dict |-> estimates_dict(est)]
  ELSE [ok |-> TRUE, err |-> "none",
        dict |-> [key \in DOMAIN agg.d |->
                    SumOfKnown(agg.d[key], estimates_dict(est))]]

\* UMXSeparator.to_dict(estimates, aggregate_dict)
to_dict(est, agg) ==
  IF ~EntriesOk(est)
  THEN [ok |-> FALSE, err |-> "IndexError", dict |-> <<>>]
  ELSE IF ~agg.given
  THEN [ok |-> TRUE, err |-> "none", dict |-> estimates_dict(est)]
  ELSE IF \E key \in DOMAIN agg.d :
            \E i \in DOMAIN agg.d[key] :
              agg.d[key][i] \notin DOMAIN estimates_dict(est)
  THEN [ok |-> FALSE, err |-> "KeyError", dict |-> <<>>]
  ELSE [ok |-> TRUE, err |-> "none",
        dict |-> [key \in DOMAIN agg.d |->
                    SumOf(agg.d[key], estimates_dict(est))]]

\* ---------------------------------------------------------- input sets
SeqsUpTo(S, n) == UNION {[1..m -> S] : m \in 0..n}

\* target lists given to load_model: distinct names, in any order
TargetLists ==
  {q \in SeqsUpTo(TargetNames, Cardinality(TargetNames)) :
     \A a, b \in DOMAIN q : a # b => q[a] # q[b]}

\* the wiener_win_len argument: not passed, None, or an integer
WinArgs ==
  {[given |-> FALSE, val |-> <<>>], [given |-> TRUE, val |-> <<>>]}
  \cup {[given |-> TRUE, val |-> <<n>>] : n \in (0 - 1)..MaxWin}

\* frame counts of the mixture: the small ones and, for a configured chunk
\* length w, the counts around w
FrameCounts(w) ==
  (0..MaxFrames) \cup
  (IF w = <<>> THEN {DefaultWienerWinLen + 1}
   ELSE IF w[1] >= 1 THEN {w[1], w[1] + 1} ELSE {})

AggLists == SeqsUpTo(AggNames, MaxAggLen)

AggSpecs == UNION {[L -> AggLists] : L \in SUBSET AggLabels}

\* ---------------------------------------------------------------- state
\* the variables of a call, before any call
NoCall ==
  /\ err = "none"
  /\ nb_samples = 0 /\ nb_frames = 0 /\ nb_sources = 0 /\ j = 0
  /\ sample = 0 /\ pos = 0 /\ wiener_win_len = 0
  /\ chunks = <<>> /\ cnt = <<>> /\ outside = FALSE /\ layout = <<>>
  /\ stftCalls = 0 /\ estimatorCalls = 0 /\ wienerCalls = 0 /\ istftCalls = 0
  /\ estimates = <<>>
  /\ argEst = <<>> /\ argAgg = NoAgg
  /\ result = [ok |-> FALSE, err |-> "none", dict |-> <<>>]

\* before __init__: nothing is set
Unbuilt ==
  /\ pc = "new"
  /\ _max_freq_bins = <<>>
  /\ _residual = FALSE /\ _wiener_win_len = <<>> /\ _num_iter = 0
  /\ _softmask = FALSE /\ winGiven = FALSE
  /\ _target_models = <<>>
  /\ NoCall

Init ==
  /\ _sample_rate = 4 /\ _window_size = 4 /\ bandwidth = 1
  /\ Unbuilt

BwInit ==
  /\ _sample_rate \in 1..MaxRate
  /\ _window_size \in 1..MaxNfft
  /\ bandwidth \in (0 - 1)..MaxBandwidth
  /\ Unbuilt

\* ------------------------------------------------------------ __init__
\* UMXSeparator.__init__: stores its arguments; the only computation is
\* bandwidth_to_max_bin, whose ValueError ends the construction
Construct ==
  /\ pc = "new"
  /\ \E res \in BOOLEAN, win \in WinArgs, iter \in 0..MaxIter, soft \in BOOLEAN :
       LET mb == bandwidth_to_max_bin(_sample_rate, _window_size, bandwidth)
       IN /\ _residual' = res
          /\ _max_freq_bins' = mb
          /\ IF mb = <<>>
             THEN /\ pc' = "ctor_error"
                  /\ err' = "ValueError"
                  /\ UNCHANGED <<_wiener_win_len, winGiven, _num_iter, _softmask>>
             ELSE /\ pc' = "idle"
                  /\ err' = "none"
                  /\ _wiener_win_len' =
                       (IF win.given THEN win.val ELSE <<DefaultWienerWinLen>>)
                  /\ winGiven' = win.given
                  /\ _num_iter' = iter
                  /\ _softmask' = soft
  /\ UNCHANGED <<_sample_rate, _window_size, bandwidth, _target_models,
                 callvars, loopvars, countvars, estimates, dictvars>>

\* ---------------------------------------------------------- load_model
\* load_model(targets): targets None stands for ['piano', 'orch']
LoadModel ==
  /\ pc = "idle"
  /\ \E given \in BOOLEAN, targets \in TargetLists :
       _target_models' = (IF given THEN targets ELSE <<"piano", "orch">>)
  /\ UNCHANGED <<pc, err, cfgvars, callvars, loopvars, countvars,
                 estimates, dictvars>>

\* -------------------------------------------------------------- forward
\* lines 235-247: the transform of the mixture and the spectrogram stack
ForwardStart ==
  /\ pc = "idle"
  /\ \E nbs \in 0..MaxSamples, nbf \in FrameCounts(_wiener_win_len) :
       /\ nb_samples' = nbs
       /\ nb_frames' = nbf
  /\ nb_sources' = Len(_target_models)
  /\ j' = 0
  /\ stftCalls' = stftCalls + 1
  /\ pc' = "targets"
  /\ UNCHANGED <<err, cfgvars, _target_models, loopvars, estimatorCalls,
                 wienerCalls, istftCalls, estimates, dictvars>>

\* lines 249-253: one iteration of the loop over the target models
ApplyTarget ==
  /\ pc = "targets"
  /\ j < Len(_target_models)
  /\ j' = j + 1
  /\ estimatorCalls' = estimatorCalls + 1
  /\ UNCHANGED <<pc, err, cfgvars, _target_models, nb_samples, nb_frames,
                 nb_sources, loopvars, stftCalls, wienerCalls, istftCalls,
                 estimates, dictvars>>

\* lines 265-267: the residual adds one source
WithResidual(n, residual) == IF residual THEN n + 1 ELSE n

\* line 269: the condition of the raise
EMDegenerate_never(n, iter) == FALSE

EMDegenerate_fewer(n, iter) == n < 2 /\ iter > 0

EMDegenerate(n, iter) == n = 1 /\ iter > 0

\* lines 264-281: the source count, the check of the EM configuration and
\* the allocation of targets_stft
CheckSources ==
  /\ pc = "targets"
  /\ j >= Len(_target_models)
  /\ LET n == WithResidual(nb_sources, _residual)
     IN /\ nb_sources' = n
        /\ IF EMDegenerate(n, _num_iter)
           THEN /\ pc' = "raised"
                /\ err' = "Exception"
           ELSE /\ pc' = "samples"
                /\ err' = err
  /\ sample' = 0
  /\ UNCHANGED <<cfgvars, _target_models, nb_samples, nb_frames, j, pos,
                 wiener_win_len, chunks, cnt, outside, layout, countvars,
                 estimates, dictvars>>

\* lines 285-288: the chunk length of this call
EffectiveWinLen_default(w, nbf) ==
  IF w # <<>> THEN w[1] ELSE DefaultWienerWinLen

EffectiveWinLen(w, nbf) == IF w # <<>> THEN w[1] ELSE nbf

\* lines 283-288: the head of the loop over the samples
SampleStart ==
  /\ pc = "samples"
  /\ sample < nb_samples
  /\ pos' = 0
  /\ wiener_win_len' = EffectiveWinLen(_wiener_win_len, nb_frames)
  /\ chunks' = <<>>
  /\ cnt' = [f \in 0..(nb_frames - 1) |-> 0]
  /\ pc' = "chunks"
  /\ UNCHANGED <<err, cfgvars, _target_models, callvars, sample, outside,
                 layout, countvars, estimates, dictvars>>

\* line 290: the end (exclusive) of torch.arange(pos, min(nb_frames, pos + w))
ChunkEnd_nomin(p, nbf, w) == p + w

ChunkEnd(p, nbf, w) == Min(nbf, p + w)

\* line 291: int(cur_frame[-1]) + 1, cur the range <<first, end>>
NextPos_last(cur) == cur[2] - 1

NextPos(cur) == (cur[2] - 1) + 1

\* the source slots of wiener's output: the targets in order, then the
\* residual when asked for
wiener(names, residual) ==
  names \o (IF residual THEN <<"residual">> ELSE <<>>)

\* lines 289-299: one iteration of the while loop.  torch.arange raises
\* RuntimeError when its end is below its start, and cur_frame[-1] raises
\* IndexError on an empty range.  The bound on Len(chunks) holds of every
\* run of the loop: each chunk holds at least one frame.
ChunkStep ==
  /\ pc = "chunks"
  /\ pos < nb_frames
  /\ Len(chunks) <= nb_frames
  /\ LET end == ChunkEnd(pos, nb_frames, wiener_win_len)
         cur == <<pos, end>>
     IN IF end <= pos
        THEN /\ pc' = "raised"
             /\ err' = (IF end < pos THEN "RuntimeError" ELSE "IndexError")
             /\ UNCHANGED <<pos, chunks, cnt, outside, layout, wienerCalls>>
        ELSE /\ pos' = NextPos(cur)
             /\ chunks' = Append(chunks, cur)
             /\ cnt' = [f \in DOMAIN cnt |->
                          IF pos <= f /\ f < end THEN cnt[f] + 1 ELSE cnt[f]]
             /\ outside' = (outside \/ end > nb_frames)
             /\ layout' = wiener(_target_models, _residual)
             /\ wienerCalls' = wienerCalls + 1
             /\ UNCHANGED <<pc, err>>
  /\ UNCHANGED <<cfgvars, _target_models, callvars, sample, wiener_win_len,
                 stftCalls, estimatorCalls, istftCalls, estimates, dictvars>>

\* line 289 false: the while loop ends and the for loop takes the next sample
ChunkLoopExit ==
  /\ pc = "chunks"
  /\ pos >= nb_frames
  /\ sample' = sample + 1
  /\ pc' = "samples"
  /\ UNCHANGED <<err, cfgvars, _target_models, callvars, pos, wiener_win_len,
                 chunks, cnt, outside, layout, countvars, estimates, dictvars>>

\* lines 301-307: the inverse transform and the return
ForwardFinish ==
  /\ pc = "samples"
  /\ sample >= nb_samples
  /\ istftCalls' = istftCalls + 1
  /\ estimates' = <<ForwardOutput(nb_samples, nb_sources)>>
  /\ pc' = "returned"
  /\ UNCHANGED <<err, cfgvars, _target_models, callvars, loopvars, stftCalls,
                 estimatorCalls, wienerCalls, dictvars>>

\* ---------------------------------------------------- separate, to_dict
\* lines 339-341 after forward has returned: the call was separate(mix)
SeparateFinish ==
  /\ pc = "returned"
  /\ argEst' = <<squeeze0(estimates[1])>>
  /\ argAgg' = NoAgg
  /\ result' = to_dict(squeeze0(estimates[1]), NoAgg)
  /\ pc' = "separated"
  /\ UNCHANGED <<err, cfgvars, _target_models, callvars, loopvars, countvars,
                 estimates>>

\* to_dict(e) called on forward's estimates, as returned or squeezed
ToDict ==
  /\ pc = "returned"
  /\ \E e \in {estimates[1], squeeze0(estimates[1])} :
       /\ argEst' = <<e>>
       /\ result' = to_dict(e, NoAgg)
  /\ argAgg' = NoAgg
  /\ pc' = "dict"
  /\ UNCHANGED <<err, cfgvars, _target_models, callvars, loopvars, countvars,
                 estimates>>

\* to_dict(e, aggregate_dict) with an aggregation specification
ToDictAggregate ==
  /\ pc = "returned"
  /\ \E e \in {estimates[1], squeeze0(estimates[1])}, a \in AggSpecs :
       /\ argEst' = <<e>>
       /\ argAgg' = [given |-> TRUE, d |-> a]
       /\ result' = to_dict(e, [given |-> TRUE, d |-> a])
  /\ pc' = "dict"
  /\ UNCHANGED <<err, cfgvars, _target_models, callvars, loopvars, countvars,
                 estimates>>

\* ------------------------------------------------------- specifications
ForwardStep ==
  \/ ApplyTarget
  \/ CheckSources
  \/ SampleStart
  \/ ChunkStep
  \/ ChunkLoopExit
  \/ ForwardFinish

Next ==
  \/ Construct
  \/ LoadModel
  \/ ForwardStart
  \/ ApplyTarget
  \/ CheckSources
  \/ SampleStart
  \/ ChunkStep
  \/ ChunkLoopExit
  \/ ForwardFinish
  \/ SeparateFinish
  \/ ToDict

Spec == Init /\ [][Next]_vars

\* a running forward call takes its next step
FairSpec == Init /\ [][Next]_vars /\ WF_vars(ForwardStep)

\* construction alone, over the stft configurations
BwNext == Construct

BwSpec == BwInit /\ [][BwNext]_vars

\* to_dict with aggregation on the estimates of a finished forward call of a
\* separator built with the default arguments but for the residual flag
DictInit ==
  /\ _sample_rate = 4 /\ _window_size = 4 /\ bandwidth = 1
  /\ _max_freq_bins = bandwidth_to_max_bin(4, 4, 1)
  /\ _residual \in BOOLEAN
  /\ _wiener_win_len = <<DefaultWienerWinLen>> /\ winGiven = FALSE
  /\ _num_iter = 0 /\ _softmask = FALSE
  /\ _target_models \in TargetLists
  /\ err = "none"
  /\ nb_samples \in 0..MaxSamples
  /\ nb_frames = 0
  /\ nb_sources = WithResidual(Len(_target_models), _residual)
  /\ j = Len(_target_models)
  /\ sample = nb_samples /\ pos = 0 /\ wiener_win_len = 0
  /\ chunks = <<>> /\ cnt = <<>> /\ outside = FALSE /\ layout = <<>>
  /\ stftCalls = 1 /\ estimatorCalls = Len(_target_models)
  /\ wienerCalls = 0 /\ istftCalls = 1
  /\ estimates = <<ForwardOutput(nb_samples, nb_sources)>>
  /\ argEst = <<>> /\ argAgg = NoAgg
  /\ result = [ok |-> FALSE, err |-> "none", dict |-> <<>>]
  /\ pc = "returned"

DictNext == ToDictAggregate

DictSpec == DictInit /\ [][DictNext]_vars

\* ================================================================ claims
EffSources == WithResidual(Len(_target_models), _residual)

\* C1: whenever the EM iteration count is > 0 and the effective source count
\* is exactly 1, forward raises: the call never gets past the check at line
\* 269, no wiener call and no inverse transform is made and no estimates are
\* returned.
C1_EMWithOneSourceFails ==
  (_num_iter > 0 /\ EffSources = 1) =>
    /\ pc \in {"idle", "targets", "raised"}
    /\ pc = "raised" => err = "Exception"
    /\ wienerCalls = 0 /\ istftCalls = 0 /\ estimates = <<>>

C1_Witness ==
  /\ pc = "raised" /\ err = "Exception"
  /\ Len(_target_models) = 1 /\ ~_residual /\ _num_iter > 0
  /\ stftCalls = 1 /\ wienerCalls = 0

\* the grid frequency k * (rate/2) / (n_fft//2) does not exceed bandwidth
GridLe(k) == k * _sample_rate <= bandwidth * 2 * (_window_size \div 2)

C3_NyquistGivesAllBins ==
  (pc # "new" /\ _window_size >= 2 /\ 2 * bandwidth >= _sample_rate) =>
    /\ pc = "idle"
    /\ _max_freq_bins = <<_window_size \div 2 + 1>>

C3_Witness ==
  /\ pc = "idle" /\ _window_size >= 2
  /\ 2 * bandwidth > _sample_rate
  /\ _max_freq_bins = <<_window_size \div 2 + 1>>

\* the cells of forward's output at index k of the target axis
TargetAxisCells(k) == {<<s, k>> : s \in 0..(nb_samples - 1)}

\* C4: separate(mix) returns, for every batch size nb_samples >= 1, a mapping
\* whose keys are the loaded target names plus "residual" iff the residual is
\* enabled, the entry of the k-th target being index k of the target axis of
\* forward's output.
C4_SeparateIndexesTargetAxis ==
  (pc = "separated" /\ nb_samples >= 1) =>
    /\ result.ok
    /\ DOMAIN result.dict =
         Range(_target_models) \cup (IF _residual THEN {"residual"} ELSE {})
    /\ \A k \in DOMAIN _target_models :
         Cells(result.dict[_target_models[k]]) = TargetAxisCells(k - 1)

\* C5: in a forward call that reaches refinement the refined stack has one
\* slot per loaded target, plus one when the residual is enabled; the
\* residual is in the last slot, and that slot is what to_dict reports under
\* "residual".
C5_ResidualIsLastSlot ==
  /\ wienerCalls > 0 =>
       /\ nb_sources = Len(_target_models) + (IF _residual THEN 1 ELSE 0)
       /\ Len(layout) = nb_sources
       /\ _residual => layout[nb_sources] = "residual"
       /\ ~_residual => "residual" \notin Range(layout)
  /\ (pc \in {"dict", "separated"} /\ wienerCalls > 0 /\ _residual
        /\ result.ok) =>
       Cells(result.dict["residual"]) = TargetAxisCells(nb_sources - 1)

\* C6 as stated: EM iterations with fewer than two effective sources are
\* rejected at construction, before a forward call runs the transform or a
\* target estimator.
C6_ValidatedAtConstruction ==
  (stftCalls > 0 \/ estimatorCalls > 0) => ~(_num_iter > 0 /\ EffSources < 2)

\* C6 as amended: construction rejects none of these values; forward rejects
\* EM iterations with exactly one effective source at call time, after the
\* transform and every target estimator have run and before any refinement
\* or inverse transform.
C6_RejectedByForward ==
  /\ pc # "ctor_error"
  /\ err = "Exception" =>
       /\ pc = "raised" /\ _num_iter > 0 /\ EffSources = 1
       /\ stftCalls = 1 /\ estimatorCalls = Len(_target_models)
       /\ wienerCalls = 0 /\ istftCalls = 0
  /\ wienerCalls > 0 => ~(_num_iter > 0 /\ EffSources = 1)

C6_Witness ==
  /\ err = "Exception" /\ estimatorCalls = 1 /\ stftCalls = 1
  /\ _residual = FALSE /\ winGiven = FALSE

ChunkLen(c) == c[2] - c[1]

\* C7: for a chunk length L >= 1 the chunks of a sample are contiguous
\* ascending ranges from frame 0, every frame below pos has been written
\* exactly once and no other, every chunk but the last has L frames, the last
\* has 1..L, and when the loop has ended every frame has been written once.
C7_ChunksPartitionFrames ==
  (pc \in {"chunks", "samples", "returned"} /\ wiener_win_len >= 1
     /\ (pc = "chunks" \/ sample >= 1)) =>
    /\ ~outside
    /\ pos <= nb_frames
    /\ pos = (IF chunks = <<>> THEN 0 ELSE chunks[Len(chunks)][2])
    /\ \A f \in DOMAIN cnt : cnt[f] = (IF f < pos THEN 1 ELSE 0)
    /\ \A i \in DOMAIN chunks :
         /\ chunks[i][1] = (IF i = 1 THEN 0 ELSE chunks[i - 1][2])
         /\ ChunkLen(chunks[i]) >= 1
         /\ ChunkLen(chunks[i]) <= wiener_win_len
         /\ chunks[i][2] <= nb_frames
         /\ i < Len(chunks) => ChunkLen(chunks[i]) = wiener_win_len
    /\ pc # "chunks" => pos = nb_frames

C7_Witness ==
  /\ pc = "samples" /\ sample >= 1
  /\ Len(chunks) >= 2
  /\ ChunkLen(chunks[Len(chunks)]) < wiener_win_len
  /\ \A f \in DOMAIN cnt : cnt[f] = 1

OneChunk == Len(chunks) = 1 /\ chunks[1] = <<0, nb_frames>>

\* C8 as stated: a separator built without an explicit chunk length refines
\* each sample in exactly one chunk holding every frame.
C8_DefaultCoversSignal ==
  (~winGiven /\ chunks # <<>>) => OneChunk

\* C8 as amended: built with chunk length None, each sample is refined in
\* exactly one chunk holding every frame; built without the argument the
\* chunk length is 300, one chunk for nb_frames <= 300 and more above.
C8_NoneCoversSignal ==
  /\ (winGiven /\ _wiener_win_len = <<>> /\ chunks # <<>>) => OneChunk
  /\ (pc \notin {"new", "ctor_error"} /\ ~winGiven) =>
       _wiener_win_len = <<DefaultWienerWinLen>>
  /\ (~winGiven /\ chunks # <<>> /\ nb_frames <= DefaultWienerWinLen) =>
       OneChunk
  /\ (~winGiven /\ pc = "samples" /\ sample >= 1
        /\ nb_frames > DefaultWienerWinLen) => Len(chunks) >= 2

C8_Witness ==
  /\ winGiven /\ _wiener_win_len = <<>>
  /\ pc = "samples" /\ sample >= 1
  /\ nb_frames = DefaultWienerWinLen + 1
  /\ OneChunk

\* the names to_dict knows: the loaded targets and, with it enabled, the
\* residual
KnownNames ==
  Range(_target_models) \cup (IF _residual THEN {"residual"} ELSE {})

AllListedKnown ==
  \A key \in DOMAIN argAgg.d :
    \A i \in DOMAIN argAgg.d[key] : argAgg.d[key][i] \in KnownNames

\* the estimate to_dict holds for a name when no aggregation is asked for
PlainEntry(n) == to_dict(argEst[1], NoAgg).dict[n]

CeilDiv(n, w) == (n + w - 1) \div w

\* the counts of C10: a loop that has ended made ceil(nb_frames / L) calls,
\* and a chunk length L <= 0 raises in the first iteration of the first
\* sample, before any call
LoopCounts ==
  /\ (pc = "chunks" /\ pos >= nb_frames /\ wiener_win_len >= 1) =>
       Len(chunks) = CeilDiv(nb_frames, wiener_win_len)
  /\ (pc \in {"samples", "returned"} /\ sample >= 1 /\ wiener_win_len >= 1) =>
       wienerCalls = sample * CeilDiv(nb_frames, wiener_win_len)
  /\ (pc = "chunks" /\ wiener_win_len <= 0 /\ nb_frames >= 1) =>
       (sample = 0 /\ pos = 0 /\ chunks = <<>> /\ wienerCalls = 0)
  /\ (pc \in {"samples", "returned"} /\ sample >= 1 /\ nb_frames >= 1) =>
       wiener_win_len >= 1
  /\ err \in {"IndexError", "RuntimeError"} =>
       (pc = "raised" /\ wiener_win_len <= 0 /\ wienerCalls = 0)

\* C10: the chunk loop terminates: every iteration that stays in the loop
\* raises pos, a loop with L >= 1 ends after ceil(nb_frames / L) calls per
\* sample, and with L <= 0 and nb_frames >= 1 the first iteration raises.
C10_ChunkLoopTerminates ==
  /\ []LoopCounts
  /\ [][(pc = "chunks" /\ pc' = "chunks") => pos' > pos]_vars
  /\ (pc = "chunks") ~> (pc \in {"samples", "raised"})
  /\ (pc = "chunks" /\ wiener_win_len <= 0 /\ nb_frames >= 1) ~> (pc = "raised")

C10_Witness ==
  /\ pc = "returned" /\ nb_samples = 2
  /\ nb_frames = 3 /\ wiener_win_len = 2 /\ wienerCalls = 4

====
